---- MODULE Spec2Model ----
(***************************************************************************)
(* Channel<T> of src/channel.h: a FIFO guarded by one mutex and two        *)
(* condition variables (cv_send, cv_recv), used by several threads.        *)
(*                                                                         *)
(* Every action is one critical section of a member function: the code a   *)
(* thread runs between acquiring Channel::mtx and releasing it, either by  *)
(* returning/throwing or by blocking in condition_variable::wait.  Hence   *)
(* every state of the model is a state in which the channel lock is free.  *)
(* A thread inside cv.wait(lock, pred) is either in the wait set           *)
(* ("send_wait"/"recv_wait") or has been woken and is contending for the   *)
(* mutex ("send_woken"/"recv_woken"); once it gets the mutex it evaluates  *)
(* pred again, as `while (!pred()) wait(lock);` does.                      *)
(*                                                                         *)
(* No selector is registered with this channel, so the loops               *)
(* `for (auto selector : selectors) selector->notify();` run zero times;   *)
(* the Selector and the channels it is registered with have a part of      *)
(* their own below, as have the mutexes (lock-order view).                 *)
(* async_send/async_receive run send/receive on a thread of their own and  *)
(* are the threads of Procs.  The channel never looks at the values it     *)
(* carries, so the k-th send or try_send call of a run carries the value   *)
(* k; `last` records the call that returned in the latest step.            *)
(***************************************************************************)
EXTENDS Integers, Sequences, FiniteSets, Bags, TLC

\* ---- bounds of the model ------------------------------------------------
NProcs == 3      \* threads using the channel
MaxCap == 2      \* capacities 0..MaxCap are explored
MaxSends == 2    \* send/try_send calls in one run (each carries a fresh value)
SizeBits == 16   \* modelled width of size_t (TLC integers cannot hold 2^64)

SelCap == 1      \* capacity of each channel a selector is registered with
NVals == 2       \* values a producer may send on them

Procs == 1..NProcs
SizeMod == 2^SizeBits
\* the two channels of selector_test.cc
Chans == {"ch_int", "ch_str"}
Vals == 1..NVals

VARIABLES
    capacity,          \* Channel::capacity
    queue,             \* Channel::queue
    closed,            \* Channel::closed
    waitingReceivers,  \* Channel::waitingReceivers (size_t)
    pc,                \* where each thread is
    arg,               \* the value a thread blocked in send() carries
    last,              \* the call that returned in the latest step, with its result
    nSends,            \* send/try_send calls made so far
    slog,              \* history: the values pushed, in the order they were pushed
    rlog               \* history: the values popped, in the order they were popped

\* A Selector and the channels it is registered with (see the Selector section)
VARIABLES
    chQueue,           \* Channel::queue of each channel
    chClosed,          \* Channel::closed of each channel
    chSelectors,       \* Channel::selectors of each channel
    channels,          \* Selector::channels: the intents, each named by its channel
    added,             \* the channels add_receive has been called for
    spc,               \* where the thread that owns the selector is
    it,                \* position of find_if / any_of in Selector::channels
    lam,               \* position inside the intent's lambda
    sret,              \* what the latest select() call returned
    ncb,               \* callbacks invoked by the current/latest select() call
    cb,                \* the latest callback invocation: <<channel, value>>
    ready0,            \* the channels whose intent could fire at select() entry
    allDone0           \* at select() entry every intent's channel was closed and empty

\* A blocking sender on each channel of the selector (see the rendezvous
\* section) and the mutexes of the lock-order view (see the lock section)
VARIABLES
    rv,                \* per channel: Channel::waitingReceivers and the thread in send()
    selMtx,            \* the thread that holds Selector::mtx, or Free
    chMtx,             \* per channel: the thread that holds Channel::mtx, or Free
    lpc                \* lock-order view: where each thread is

auxvars == <<rv, selMtx, chMtx, lpc>>
chanvars == <<capacity, queue, closed, waitingReceivers, pc, arg, last, nSends, slog, rlog>>
selvars == <<chQueue, chClosed, chSelectors, channels, added, spc, it, lam, sret, ncb, cb,
             ready0, allDone0>>
vars == <<capacity, queue, closed, waitingReceivers, pc, arg, last, nSends, slog, rlog,
          chQueue, chClosed, chSelectors, channels, added, spc, it, lam, sret, ncb, cb,
          ready0, allDone0, rv, selMtx, chMtx, lpc>>

NoRet == [p |-> 0, op |-> "none", res |-> "none"]
Ret(p, o, r) == [p |-> p, op |-> o, res |-> r]

\* the two std::runtime_error a send can throw (the Closed error)
SendOnClosed == "Send on closed channel"
ClosedWhileWaiting == "Channel closed while waiting to send"
IsClosedError(r) == r \in {SendOnClosed, ClosedWhileWaiting}

\* std::optional<T>: nullopt is <<>>, a value v is <<v>>
nullopt == <<>>
Some(v) == <<v>>

\* the threads of the lock-order view: the selector's owner and the producers
Owner == 0
LockThreads == {Owner} \cup Procs

\* the holder of a mutex that nobody holds
Free == -1

\* nobody is inside send() on a selector channel and every mutex is free
AuxInit ==
    /\ rv = [c \in Chans |-> [waitingReceivers |-> 0, pc |-> "idle", arg |-> 0]]
    /\ selMtx = Free
    /\ chMtx = [c \in Chans |-> Free]
    /\ lpc = [t \in LockThreads |-> [at |-> "idle", ch |-> "none"]]

\* a default-constructed Selector and freshly constructed channels
SelectorInit ==
    /\ chQueue = [c \in Chans |-> <<>>]
    /\ chClosed = [c \in Chans |-> FALSE]
    /\ chSelectors = [c \in Chans |-> <<>>]
    /\ channels = <<>>
    /\ added = {}
    /\ spc = "idle"
    /\ it = 0
    /\ lam = "none"
    /\ sret = "none"
    /\ ncb = 0
    /\ cb = <<>>
    /\ ready0 = {}
    /\ allDone0 = FALSE

Init ==
    /\ SelectorInit
    /\ AuxInit
    /\ capacity \in 0..MaxCap
    /\ queue = <<>>
    /\ closed = FALSE
    /\ waitingReceivers = 0
    /\ pc = [p \in Procs |-> "idle"]
    /\ arg = [p \in Procs |-> 0]
    /\ last = NoRet
    /\ nSends = 0
    /\ slog = <<>>
    /\ rlog = <<>>

\* ---- std::queue -------------------------------------------------------------
\* mutant: the value goes to the head of the queue
Push_front(q, v) == <<v>> \o q

\* queue.push(value)
Push(q, v) == Append(q, v)

\* mutant: the newest value is read instead of the oldest
Front_back(q) == q[Len(q)]

\* queue.front()
Front(q) == Head(q)

\* mutant: the value read is left in the queue
Pop_keep(q) == q

\* queue.pop()
Pop(q) == Tail(q)

\* ---- size_t arithmetic ----------------------------------------------------
Inc(n) == (n + 1) % SizeMod
Dec(n) == (n - 1) % SizeMod

\* ---- condition variables --------------------------------------------------
\* notify_one: wakes one thread of the wait set, if there is one.
\* The result is the set of possible thread states afterwards.
\* mutant: cv_send.notify_one() wakes nobody
cv_send_notify_one_none(f) == {f}

cv_send_notify_one(f) ==
    IF \E w \in Procs : f[w] = "send_wait"
    THEN {[f EXCEPT ![w] = "send_woken"] : w \in {x \in Procs : f[x] = "send_wait"}}
    ELSE {f}

cv_recv_notify_one(f) ==
    IF \E w \in Procs : f[w] = "recv_wait"
    THEN {[f EXCEPT ![w] = "recv_woken"] : w \in {x \in Procs : f[x] = "recv_wait"}}
    ELSE {f}

cv_send_notify_all(f) ==
    [w \in Procs |-> IF f[w] = "send_wait" THEN "send_woken" ELSE f[w]]

\* mutant: close() forgets the receivers
cv_recv_notify_all_none(f) == f

cv_recv_notify_all(f) ==
    [w \in Procs |-> IF f[w] = "recv_wait" THEN "recv_woken" ELSE f[w]]

\* ---- send -----------------------------------------------------------------
\* the predicates of the two cv_send.wait calls
SendPredUnbuffered == waitingReceivers > 0 \/ closed

\* mutant: the buffer-full test is off by one
SendPredBuffered_offByOne == Len(queue) <= capacity \/ closed

SendPredBuffered == Len(queue) < capacity \/ closed

\* mutant: the sender does not look at `closed` again after the wait
SendBody_noClosedCheck(p, v) ==
    IF ~(IF capacity = 0 THEN SendPredUnbuffered ELSE SendPredBuffered)
    THEN /\ pc' = [pc EXCEPT ![p] = "send_wait"]
         /\ arg' = [arg EXCEPT ![p] = v]
         /\ last' = NoRet
         /\ UNCHANGED <<queue, waitingReceivers, slog>>
    ELSE /\ waitingReceivers' = IF capacity = 0 THEN Dec(waitingReceivers)
                                                 ELSE waitingReceivers
         /\ queue' = Push(queue, v)
         /\ slog' = Append(slog, v)
         /\ \E f \in cv_recv_notify_one([pc EXCEPT ![p] = "idle"]) : pc' = f
         /\ arg' = [arg EXCEPT ![p] = 0]
         /\ last' = Ret(p, "send", "ok")

\* send() from its cv_send.wait on, entered with the mutex held
SendBody(p, v) ==
    IF ~(IF capacity = 0 THEN SendPredUnbuffered ELSE SendPredBuffered)
    THEN \* wait(lock): release the mutex and block
         /\ pc' = [pc EXCEPT ![p] = "send_wait"]
         /\ arg' = [arg EXCEPT ![p] = v]
         /\ last' = NoRet
         /\ UNCHANGED <<queue, waitingReceivers, slog>>
    ELSE IF closed
    THEN \* throw "Channel closed while waiting to send"
         /\ pc' = [pc EXCEPT ![p] = "idle"]
         /\ arg' = [arg EXCEPT ![p] = 0]
         /\ last' = Ret(p, "send", ClosedWhileWaiting)
         /\ UNCHANGED <<queue, waitingReceivers, slog>>
    ELSE /\ waitingReceivers' = IF capacity = 0 THEN Dec(waitingReceivers)
                                                 ELSE waitingReceivers
         /\ queue' = Push(queue, v)
         /\ slog' = Append(slog, v)
         /\ \E f \in cv_recv_notify_one([pc EXCEPT ![p] = "idle"]) : pc' = f
         /\ arg' = [arg EXCEPT ![p] = 0]
         /\ last' = Ret(p, "send", "ok")

\* a thread calls send(v): v is the next fresh value
SendBegin(p) ==
    /\ pc[p] = "idle"
    /\ nSends < MaxSends
    /\ nSends' = nSends + 1
    /\ IF closed
       THEN \* throw "Send on closed channel"
            /\ last' = Ret(p, "send", SendOnClosed)
            /\ UNCHANGED <<queue, waitingReceivers, pc, arg, slog>>
       ELSE SendBody(p, nSends + 1)
    /\ UNCHANGED <<capacity, closed, rlog>>
    /\ UNCHANGED selvars
    /\ UNCHANGED auxvars

\* a woken sender has got the mutex back and evaluates the predicate again
SendResume(p) ==
    /\ pc[p] = "send_woken"
    /\ SendBody(p, arg[p])
    /\ UNCHANGED <<capacity, closed, nSends, rlog>>
    /\ UNCHANGED selvars
    /\ UNCHANGED auxvars

\* ---- try_send -------------------------------------------------------------
\* mutant: the buffer-full test of try_send is off by one
try_send_offByOne(p) ==
    /\ pc[p] = "idle"
    /\ nSends < MaxSends
    /\ nSends' = nSends + 1
    /\ IF closed \/ (capacity # 0 /\ Len(queue) > capacity)
       THEN /\ last' = Ret(p, "try_send", FALSE)
            /\ UNCHANGED <<queue, pc, slog>>
       ELSE /\ queue' = Push(queue, nSends + 1)
            /\ slog' = Append(slog, nSends + 1)
            /\ \E f \in cv_recv_notify_one(pc) : pc' = f
            /\ last' = Ret(p, "try_send", TRUE)
    /\ UNCHANGED <<capacity, closed, waitingReceivers, arg, rlog>>
    /\ UNCHANGED selvars
    /\ UNCHANGED auxvars

try_send(p) ==
    /\ pc[p] = "idle"
    /\ nSends < MaxSends
    /\ nSends' = nSends + 1
    /\ IF closed \/ (capacity # 0 /\ Len(queue) >= capacity)
       THEN /\ last' = Ret(p, "try_send", FALSE)
            /\ UNCHANGED <<queue, pc, slog>>
       ELSE /\ queue' = Push(queue, nSends + 1)
            /\ slog' = Append(slog, nSends + 1)
            /\ \E f \in cv_recv_notify_one(pc) : pc' = f
            /\ last' = Ret(p, "try_send", TRUE)
    /\ UNCHANGED <<capacity, closed, waitingReceivers, arg, rlog>>
    /\ UNCHANGED selvars
    /\ UNCHANGED auxvars

\* ---- receive --------------------------------------------------------------
\* the predicate of the two cv_recv.wait calls
RecvPred == queue # <<>> \/ closed

\* mutant: end-of-stream is reported as soon as the channel is closed
RecvBody_closedFirst(p, wr, f) ==
    IF ~RecvPred
    THEN /\ pc' = [f EXCEPT ![p] = "recv_wait"]
         /\ waitingReceivers' = wr
         /\ last' = NoRet
         /\ UNCHANGED <<queue, rlog>>
    ELSE /\ waitingReceivers' = IF capacity = 0 THEN Dec(wr) ELSE wr
         /\ IF closed
            THEN /\ pc' = [f EXCEPT ![p] = "idle"]
                 /\ last' = Ret(p, "receive", nullopt)
                 /\ UNCHANGED <<queue, rlog>>
            ELSE /\ queue' = Pop(queue)
                 /\ rlog' = Append(rlog, Front(queue))
                 /\ \E g \in cv_send_notify_one([f EXCEPT ![p] = "idle"]) : pc' = g
                 /\ last' = Ret(p, "receive", Some(Front(queue)))

\* receive() from its cv_recv.wait on, entered with the mutex held;
\* wr and f are waitingReceivers and the thread states as left by the
\* statements before the wait
RecvBody(p, wr, f) ==
    IF ~RecvPred
    THEN \* wait(lock): release the mutex and block
         /\ pc' = [f EXCEPT ![p] = "recv_wait"]
         /\ waitingReceivers' = wr
         /\ last' = NoRet
         /\ UNCHANGED <<queue, rlog>>
    ELSE /\ waitingReceivers' = IF capacity = 0 THEN Dec(wr) ELSE wr
         /\ IF queue = <<>> /\ closed
            THEN /\ pc' = [f EXCEPT ![p] = "idle"]
                 /\ last' = Ret(p, "receive", nullopt)
                 /\ UNCHANGED <<queue, rlog>>
            ELSE /\ queue' = Pop(queue)
                 /\ rlog' = Append(rlog, Front(queue))
                 /\ \E g \in cv_send_notify_one([f EXCEPT ![p] = "idle"]) : pc' = g
                 /\ last' = Ret(p, "receive", Some(Front(queue)))

\* a thread calls receive()
RecvBegin(p) ==
    /\ pc[p] = "idle"
    /\ IF capacity = 0
       THEN \E f \in cv_send_notify_one(pc) : RecvBody(p, Inc(waitingReceivers), f)
       ELSE RecvBody(p, waitingReceivers, pc)
    /\ UNCHANGED <<capacity, closed, arg, nSends, slog>>
    /\ UNCHANGED selvars
    /\ UNCHANGED auxvars

\* a woken receiver has got the mutex back and evaluates the predicate again
RecvResume(p) ==
    /\ pc[p] = "recv_woken"
    /\ RecvBody(p, waitingReceivers, pc)
    /\ UNCHANGED <<capacity, closed, arg, nSends, slog>>
    /\ UNCHANGED selvars
    /\ UNCHANGED auxvars

\* ---- try_receive ----------------------------------------------------------
try_receive(p) ==
    /\ pc[p] = "idle"
    /\ IF queue = <<>>
       THEN /\ last' = Ret(p, "try_receive", nullopt)
            /\ UNCHANGED <<queue, pc, rlog>>
       ELSE /\ queue' = Pop(queue)
            /\ rlog' = Append(rlog, Front(queue))
            /\ \E f \in cv_send_notify_one(pc) : pc' = f
            /\ last' = Ret(p, "try_receive", Some(Front(queue)))
    /\ UNCHANGED <<capacity, closed, waitingReceivers, arg, nSends, slog>>
    /\ UNCHANGED selvars
    /\ UNCHANGED auxvars

\* ---- close ----------------------------------------------------------------
\* mutant: close() flips the flag instead of setting it
close_toggle(p) ==
    /\ pc[p] = "idle"
    /\ closed' = ~closed
    /\ pc' = cv_recv_notify_all(cv_send_notify_all(pc))
    /\ last' = Ret(p, "close", "ok")
    /\ UNCHANGED <<capacity, queue, waitingReceivers, arg, nSends, slog, rlog>>
    /\ UNCHANGED selvars
    /\ UNCHANGED auxvars

close(p) ==
    /\ pc[p] = "idle"
    /\ closed' = TRUE
    /\ pc' = cv_recv_notify_all(cv_send_notify_all(pc))
    /\ last' = Ret(p, "close", "ok")
    /\ UNCHANGED <<capacity, queue, waitingReceivers, arg, nSends, slog, rlog>>
    /\ UNCHANGED selvars
    /\ UNCHANGED auxvars

\* ---- is_closed ------------------------------------------------------------
is_closed(p) ==
    /\ pc[p] = "idle"
    /\ last' = Ret(p, "is_closed", closed)
    /\ UNCHANGED <<capacity, queue, closed, waitingReceivers, pc, arg, nSends, slog, rlog>>
    /\ UNCHANGED selvars
    /\ UNCHANGED auxvars

\* ---- spurious wake-ups ----------------------------------------------------
\* condition_variable::wait may return without a notification
SpuriousWake(p) ==
    /\ pc[p] \in {"send_wait", "recv_wait"}
    /\ pc' = [pc EXCEPT ![p] = IF pc[p] = "send_wait" THEN "send_woken" ELSE "recv_woken"]
    /\ last' = NoRet
    /\ UNCHANGED <<capacity, queue, closed, waitingReceivers, arg, nSends, slog, rlog>>
    /\ UNCHANGED selvars
    /\ UNCHANGED auxvars

Next ==
    \E p \in Procs :
        \/ SendBegin(p)
        \/ SendResume(p)
        \/ try_send(p)
        \/ RecvBegin(p)
        \/ RecvResume(p)
        \/ try_receive(p)
        \/ close(p)
        \/ SpuriousWake(p)

Spec == Init /\ [][Next]_vars

\* The same threads, which may also ask is_closed() at any time.
ObserverNext ==
    \/ Next
    \/ \E p \in Procs : is_closed(p)

ObserverSpec == Init /\ [][ObserverNext]_vars

\* The scheduler eventually runs a woken thread that can take the mutex.
FairSpec == Spec /\ \A p \in Procs : WF_vars(SendResume(p)) /\ WF_vars(RecvResume(p))

\* One thread only sends and another only receives, as the sender and
\* receiver threads of test_unbounded_channel and test_closing_channel do;
\* the sender may close the channel, as in test_closing_channel.
Sender == 1
Receiver == 2

FifoNext ==
    \/ SendBegin(Sender)
    \/ SendResume(Sender)
    \/ RecvBegin(Receiver)
    \/ RecvResume(Receiver)
    \/ close(Sender)
    \/ SpuriousWake(Sender)
    \/ SpuriousWake(Receiver)

FifoSpec == Init /\ [][FifoNext]_vars

\* Threads that use the blocking calls only: send, receive and close.
BlockingNext ==
    \E p \in Procs :
        \/ SendBegin(p)
        \/ SendResume(p)
        \/ RecvBegin(p)
        \/ RecvResume(p)
        \/ close(p)
        \/ SpuriousWake(p)

BlockingSpec == Init /\ [][BlockingNext]_vars

\* ---- Selector -------------------------------------------------------------
\* One thread owns a Selector, registers receive intents with add_receive and
\* then calls select() repeatedly, as consumer() of selector_test.cc does.
\* Other threads are producers: they call try_send and close on the channels.
\* The selector thread holds Selector::mtx during the whole of select(), and
\* takes the Channel::mtx of one channel for each call it makes on a channel;
\* every action below is one such critical section.  Selector::notify() runs
\* inside the producer's critical section and does not take Selector::mtx.
TheSelector == "selector"

\* Selector::notify(): cv.notify_all(); the selector thread leaves the wait
\* set if it is in it, otherwise the notification has no effect
notify(s) == IF s = "waiting" THEN "woken" ELSE s

\* `for (auto selector : selectors) selector->notify();` of channel c
NotifySelectors(c) == IF chSelectors[c] # <<>> THEN notify(spc) ELSE spc

\* What the notification loop of channel c can do to the selector thread.
\* A selector that has been destroyed while still listed in Channel::selectors
\* is reached through a dangling pointer: the call may do nothing or bring
\* the process down.
NotifyOutcomes(c) ==
    IF chSelectors[c] # <<>> /\ spc = "destroyed"
    THEN {"destroyed", "crashed"}
    ELSE {NotifySelectors(c)}

\* Channel::try_send(v) on channel c by a producer thread
Chan_try_send(c, v) ==
    /\ spc # "crashed"
    /\ IF chClosed[c] \/ (SelCap # 0 /\ Len(chQueue[c]) >= SelCap)
       THEN UNCHANGED <<chQueue, spc>>
       ELSE /\ chQueue' = [chQueue EXCEPT ![c] = Push(@, v)]
            /\ spc' \in NotifyOutcomes(c)
    /\ UNCHANGED <<chClosed, chSelectors, channels, added, it, lam, sret, ncb, cb,
                   ready0, allDone0>>
    /\ UNCHANGED chanvars
    /\ UNCHANGED auxvars

\* Channel::close() on channel c by a producer thread
Chan_close(c) ==
    /\ spc # "crashed"
    /\ chClosed' = [chClosed EXCEPT ![c] = TRUE]
    /\ spc' \in NotifyOutcomes(c)
    /\ UNCHANGED <<chQueue, chSelectors, channels, added, it, lam, sret, ncb, cb,
                   ready0, allDone0>>
    /\ UNCHANGED chanvars
    /\ UNCHANGED auxvars

\* Channel::register_selector / Channel::unregister_selector
register_selector(sels, sel) == Append(sels, sel)
unregister_selector(sels, sel) == SelectSeq(sels, LAMBDA x : x # sel)

\* Selector::add_receive(ch, callback): the owner registers an intent
add_receive(c) ==
    /\ spc = "idle"
    /\ c \notin added
    /\ added' = added \cup {c}
    /\ chSelectors' = [chSelectors EXCEPT ![c] = register_selector(@, TheSelector)]
    /\ channels' = Append(channels, c)
    /\ UNCHANGED <<chQueue, chClosed, spc, it, lam, sret, ncb, cb, ready0, allDone0>>
    /\ UNCHANGED chanvars
    /\ UNCHANGED auxvars

\* the channels of the intents currently in Selector::channels
Armed == {channels[i] : i \in DOMAIN channels}

\* mutant: the first find_if starts at the last intent
SelectBegin_fromLast ==
    /\ spc = "idle"
    /\ spc' = "find1"
    /\ it' = IF channels = <<>> THEN 1 ELSE Len(channels)
    /\ lam' = "is_closed"
    /\ sret' = "none"
    /\ ncb' = 0
    /\ cb' = <<>>
    /\ ready0' = {c \in Armed : chQueue[c] # <<>>}
    /\ allDone0' = (channels # <<>> /\ \A c \in Armed : chClosed[c] /\ chQueue[c] = <<>>)
    /\ UNCHANGED <<chQueue, chClosed, chSelectors, channels, added>>
    /\ UNCHANGED chanvars
    /\ UNCHANGED auxvars

\* select() is called: lock Selector::mtx and start the first find_if
SelectBegin ==
    /\ spc = "idle"
    /\ spc' = "find1"
    /\ it' = 1
    /\ lam' = "is_closed"
    /\ sret' = "none"
    /\ ncb' = 0
    /\ cb' = <<>>
    /\ ready0' = {c \in Armed : chQueue[c] # <<>>}
    /\ allDone0' = (channels # <<>> /\ \A c \in Armed : chClosed[c] /\ chQueue[c] = <<>>)
    /\ UNCHANGED <<chQueue, chClosed, chSelectors, channels, added>>
    /\ UNCHANGED chanvars
    /\ UNCHANGED auxvars

Polling == spc \in {"find1", "pred", "find2"} /\ it \in DOMAIN channels

\* vector::erase(it)
Erase(q, i) == SubSeq(q, 1, i - 1) \o SubSeq(q, i + 1, Len(q))

\* the intent at position `it` has returned true to find_if / any_of
IntentTrue ==
    CASE spc = "find1" ->
           \* `if (it != channels.end()) return true;`
           /\ spc' = "idle"
           /\ sret' = "true"
           /\ it' = 0
           /\ lam' = "none"
           /\ UNCHANGED channels
      [] spc = "pred" ->
           \* the wait predicate holds: cv.wait returns, second find_if starts
           /\ spc' = "find2"
           /\ it' = 1
           /\ lam' = "is_closed"
           /\ UNCHANGED <<channels, sret>>
      [] spc = "find2" ->
           \* `channels.erase(it); return it != channels.end();` compares an
           \* iterator that erase has invalidated: either result may come out
           /\ channels' = Erase(channels, it)
           /\ spc' = "idle"
           /\ sret' \in {"true", "false"}
           /\ it' = 0
           /\ lam' = "none"

\* the intent at position `it` has returned false: on to the next intent
IntentFalse ==
    /\ it' = it + 1
    /\ lam' = "is_closed"
    /\ UNCHANGED <<spc, channels, sret>>

\* the lambda of add_receive: `if (ch.is_closed())`
LambdaIsClosed ==
    /\ Polling
    /\ lam = "is_closed"
    /\ lam' = IF chClosed[channels[it]] THEN "unregister" ELSE "try_receive"
    /\ UNCHANGED <<chQueue, chClosed, chSelectors, channels, added, spc, it, sret, ncb, cb,
                   ready0, allDone0>>
    /\ UNCHANGED chanvars
    /\ UNCHANGED auxvars

\* the lambda of add_receive: `ch.unregister_selector(this); return true;`
LambdaUnregister ==
    /\ Polling
    /\ lam = "unregister"
    /\ chSelectors' = [chSelectors EXCEPT ![channels[it]] = unregister_selector(@, TheSelector)]
    /\ IntentTrue
    /\ UNCHANGED <<chQueue, chClosed, added, ncb, cb, ready0, allDone0>>
    /\ UNCHANGED chanvars
    /\ UNCHANGED auxvars

\* the lambda of add_receive: `auto value = ch.try_receive();
\* if (value) { callback(*value); return true; } return false;`
LambdaTryReceive ==
    /\ Polling
    /\ lam = "try_receive"
    /\ LET c == channels[it] IN
         IF chQueue[c] = <<>>
         THEN /\ IntentFalse
              /\ UNCHANGED <<chQueue, ncb, cb>>
         ELSE /\ chQueue' = [chQueue EXCEPT ![c] = Pop(@)]
              /\ cb' = <<c, Front(chQueue[c])>>
              /\ ncb' = ncb + 1
              /\ IntentTrue
    /\ UNCHANGED <<chClosed, chSelectors, added, ready0, allDone0>>
    /\ UNCHANGED chanvars
    /\ UNCHANGED auxvars

\* find_if / any_of has reached channels.end()
IntentsExhausted ==
    /\ spc \in {"find1", "pred", "find2"}
    /\ it = Len(channels) + 1
    /\ CASE spc = "find1" ->
              IF channels = <<>>
              THEN \* `if (channels.empty()) return false;`
                   /\ spc' = "idle"
                   /\ sret' = "false"
                   /\ it' = 0
                   /\ lam' = "none"
              ELSE \* cv.wait(lock, pred) evaluates pred first
                   /\ spc' = "pred"
                   /\ it' = 1
                   /\ lam' = "is_closed"
                   /\ UNCHANGED sret
         [] spc = "pred" ->
              \* pred is false: release Selector::mtx and block on cv
              /\ spc' = "waiting"
              /\ it' = 0
              /\ lam' = "none"
              /\ UNCHANGED sret
         [] spc = "find2" ->
              \* `return it != channels.end();` with it == channels.end()
              /\ spc' = "idle"
              /\ sret' = "false"
              /\ it' = 0
              /\ lam' = "none"
    /\ UNCHANGED <<chQueue, chClosed, chSelectors, channels, added, ncb, cb, ready0, allDone0>>
    /\ UNCHANGED chanvars
    /\ UNCHANGED auxvars

\* the woken selector thread has Selector::mtx again and evaluates pred
SelResume ==
    /\ spc = "woken"
    /\ spc' = "pred"
    /\ it' = 1
    /\ lam' = "is_closed"
    /\ UNCHANGED <<chQueue, chClosed, chSelectors, channels, added, sret, ncb, cb,
                   ready0, allDone0>>
    /\ UNCHANGED chanvars
    /\ UNCHANGED auxvars

\* condition_variable::wait may return without a notification
SelSpuriousWake ==
    /\ spc = "waiting"
    /\ spc' = "woken"
    /\ UNCHANGED <<chQueue, chClosed, chSelectors, channels, added, it, lam, sret, ncb, cb,
                   ready0, allDone0>>
    /\ UNCHANGED chanvars
    /\ UNCHANGED auxvars

\* the steps of the thread that owns the selector, once inside select()
SelectorStep ==
    \/ SelectBegin
    \/ LambdaIsClosed
    \/ LambdaUnregister
    \/ LambdaTryReceive
    \/ IntentsExhausted
    \/ SelResume

SelNext ==
    \/ \E c \in Chans, v \in Vals : Chan_try_send(c, v)
    \/ \E c \in Chans : Chan_close(c)
    \/ \E c \in Chans : add_receive(c)
    \/ SelectBegin
    \/ LambdaIsClosed
    \/ LambdaUnregister
    \/ LambdaTryReceive
    \/ IntentsExhausted
    \/ SelResume
    \/ SelSpuriousWake

\* the plain channel of the first part is not used in this scenario
SelInit ==
    /\ SelectorInit
    /\ AuxInit
    /\ capacity = SelCap
    /\ queue = <<>>
    /\ closed = FALSE
    /\ waitingReceivers = 0
    /\ pc = [p \in Procs |-> "idle"]
    /\ arg = [p \in Procs |-> 0]
    /\ last = NoRet
    /\ nSends = 0
    /\ slog = <<>>
    /\ rlog = <<>>

SelSpec == SelInit /\ [][SelNext]_vars

\* The Selector goes out of scope, as at the end of consumer(): the class
\* declares no destructor, so only its members are destroyed and nothing is
\* done on the channels.
Selector_destroy ==
    /\ spc = "idle"
    /\ spc' = "destroyed"
    /\ UNCHANGED <<chQueue, chClosed, chSelectors, channels, added, it, lam, sret, ncb, cb,
                   ready0, allDone0>>
    /\ UNCHANGED chanvars
    /\ UNCHANGED auxvars

\* consumer() may return while the producers and main still use the channels
TeardownNext ==
    \/ SelNext
    \/ Selector_destroy

TeardownSpec == SelInit /\ [][TeardownNext]_vars

\* The selector thread keeps running: it calls select() again and again and
\* each of its steps is eventually taken.  Producers and spurious wake-ups
\* are under no obligation.
FairSelSpec == SelSpec /\ WF_vars(SelectorStep)

\* ---- a blocking sender on a capacity-0 channel of the selector -----------
\* The channels of the selector are default-constructed here (capacity 0) and
\* one thread per channel calls the blocking send(); the selector is their
\* only consumer, so nobody calls receive() and waitingReceivers is touched
\* by send alone.  Channel::mtx guards each step, as in the first part.

\* the predicate of cv_send.wait in the capacity-0 branch of send
ChanSendPredUnbuffered(c) == rv[c].waitingReceivers > 0 \/ chClosed[c]

\* send from the cv_send.wait on: wait, throw, or hand the value over
ChanSendBody(c, v) ==
    IF ~ChanSendPredUnbuffered(c)
    THEN /\ rv' = [rv EXCEPT ![c].pc = "send_wait", ![c].arg = v]
         /\ UNCHANGED <<chQueue, spc>>
    ELSE IF chClosed[c]
    THEN \* throw "Channel closed while waiting to send"
         /\ rv' = [rv EXCEPT ![c].pc = "idle", ![c].arg = 0]
         /\ UNCHANGED <<chQueue, spc>>
    ELSE /\ rv' = [rv EXCEPT ![c].pc = "idle", ![c].arg = 0,
                             ![c].waitingReceivers = Dec(@)]
         /\ chQueue' = [chQueue EXCEPT ![c] = Push(@, v)]
         /\ spc' \in NotifyOutcomes(c)

\* the sender thread of channel c calls send(v)
Chan_send(c, v) ==
    /\ spc # "crashed"
    /\ rv[c].pc = "idle"
    /\ IF chClosed[c]
       THEN \* throw "Send on closed channel"
            UNCHANGED <<rv, chQueue, spc>>
       ELSE ChanSendBody(c, v)
    /\ UNCHANGED <<chClosed, chSelectors, channels, added, it, lam, sret, ncb, cb,
                   ready0, allDone0>>
    /\ UNCHANGED <<selMtx, chMtx, lpc>>
    /\ UNCHANGED chanvars

\* the woken sender has the mutex again and evaluates the predicate
Chan_send_resume(c) ==
    /\ rv[c].pc = "send_woken"
    /\ ChanSendBody(c, rv[c].arg)
    /\ UNCHANGED <<chClosed, chSelectors, channels, added, it, lam, sret, ncb, cb,
                   ready0, allDone0>>
    /\ UNCHANGED <<selMtx, chMtx, lpc>>
    /\ UNCHANGED chanvars

\* condition_variable::wait may return without a notification
Chan_send_spurious(c) ==
    /\ rv[c].pc = "send_wait"
    /\ rv' = [rv EXCEPT ![c].pc = "send_woken"]
    /\ UNCHANGED selvars
    /\ UNCHANGED <<selMtx, chMtx, lpc>>
    /\ UNCHANGED chanvars

\* Channel::close() on channel c: wakes the sender and notifies the selector
Chan_close_senders(c) ==
    /\ spc # "crashed"
    /\ chClosed' = [chClosed EXCEPT ![c] = TRUE]
    /\ rv' = [rv EXCEPT ![c].pc = IF @ = "send_wait" THEN "send_woken" ELSE @]
    /\ spc' \in NotifyOutcomes(c)
    /\ UNCHANGED <<chQueue, chSelectors, channels, added, it, lam, sret, ncb, cb,
                   ready0, allDone0>>
    /\ UNCHANGED <<selMtx, chMtx, lpc>>
    /\ UNCHANGED chanvars

RendezvousNext ==
    \/ \E c \in Chans, v \in Vals : Chan_send(c, v)
    \/ \E c \in Chans : Chan_send_resume(c)
    \/ \E c \in Chans : Chan_send_spurious(c)
    \/ \E c \in Chans : Chan_close_senders(c)
    \/ \E c \in Chans : add_receive(c)
    \/ SelectBegin
    \/ LambdaIsClosed
    \/ LambdaUnregister
    \/ LambdaTryReceive
    \/ IntentsExhausted
    \/ SelResume
    \/ SelSpuriousWake

RendezvousSpec == SelInit /\ [][RendezvousNext]_vars

\* ---- lock-order view ------------------------------------------------------
\* The same threads seen through the mutexes they take.  The owner of the
\* selector runs add_receive and select(): both lock Selector::mtx first and
\* then, while holding it, lock the Channel::mtx of one channel at a time
\* (register_selector, is_closed, unregister_selector, try_receive); cv.wait
\* releases Selector::mtx and re-acquires it on wake-up.  A producer runs
\* send, try_send or close: it locks Channel::mtx and, holding it, calls
\* selector->notify() for the registered selectors.  A thread that is at an
\* acquisition point waits there until the mutex is free.
At(t, a) == lpc[t].at = a
Goto(t, a, c) == lpc' = [lpc EXCEPT ![t] = [at |-> a, ch |-> c]]

\* mutant: notify() locks Selector::mtx around cv.notify_all()
NotifyAcquires_mtx == {"Selector::mtx"}

\* the mutexes Selector::notify() acquires: `cv.notify_all();` and no lock
NotifyAcquires == {}

\* the owner calls add_receive or select(): std::unique_lock lock(mtx)
OwnerCall ==
    /\ At(Owner, "idle")
    /\ Goto(Owner, "want_sel", "none")
    /\ UNCHANGED <<selMtx, chMtx, rv>>
    /\ UNCHANGED <<chanvars, selvars>>

OwnerAcquireSel ==
    /\ At(Owner, "want_sel")
    /\ selMtx = Free
    /\ selMtx' = Owner
    /\ Goto(Owner, "in_sel", "none")
    /\ UNCHANGED <<chMtx, rv>>
    /\ UNCHANGED <<chanvars, selvars>>

\* holding Selector::mtx, the owner calls a member function of channel c
OwnerCallChannel(c) ==
    /\ At(Owner, "in_sel")
    /\ Goto(Owner, "want_ch", c)
    /\ UNCHANGED <<selMtx, chMtx, rv>>
    /\ UNCHANGED <<chanvars, selvars>>

OwnerAcquireChannel ==
    /\ At(Owner, "want_ch")
    /\ chMtx[lpc[Owner].ch] = Free
    /\ chMtx' = [chMtx EXCEPT ![lpc[Owner].ch] = Owner]
    /\ Goto(Owner, "in_ch", lpc[Owner].ch)
    /\ UNCHANGED <<selMtx, rv>>
    /\ UNCHANGED <<chanvars, selvars>>

\* the member function of the channel returns
OwnerReleaseChannel ==
    /\ At(Owner, "in_ch")
    /\ chMtx' = [chMtx EXCEPT ![lpc[Owner].ch] = Free]
    /\ Goto(Owner, "in_sel", "none")
    /\ UNCHANGED <<selMtx, rv>>
    /\ UNCHANGED <<chanvars, selvars>>

\* select() blocks in cv.wait, which unlocks Selector::mtx
OwnerCvWait ==
    /\ At(Owner, "in_sel")
    /\ selMtx' = Free
    /\ Goto(Owner, "cv_wait", "none")
    /\ UNCHANGED <<chMtx, rv>>
    /\ UNCHANGED <<chanvars, selvars>>

\* a notification or a spurious wake-up: cv.wait locks Selector::mtx again
OwnerCvWake ==
    /\ At(Owner, "cv_wait")
    /\ Goto(Owner, "want_sel", "none")
    /\ UNCHANGED <<selMtx, chMtx, rv>>
    /\ UNCHANGED <<chanvars, selvars>>

\* add_receive or select() returns
OwnerReturn ==
    /\ At(Owner, "in_sel")
    /\ selMtx' = Free
    /\ Goto(Owner, "idle", "none")
    /\ UNCHANGED <<chMtx, rv>>
    /\ UNCHANGED <<chanvars, selvars>>

\* producer p calls send, try_send or close on channel c
ProducerCall(p, c) ==
    /\ At(p, "idle")
    /\ Goto(p, "want_ch", c)
    /\ UNCHANGED <<selMtx, chMtx, rv>>
    /\ UNCHANGED <<chanvars, selvars>>

ProducerAcquireChannel(p) ==
    /\ At(p, "want_ch")
    /\ chMtx[lpc[p].ch] = Free
    /\ chMtx' = [chMtx EXCEPT ![lpc[p].ch] = p]
    /\ Goto(p, "in_ch", lpc[p].ch)
    /\ UNCHANGED <<selMtx, rv>>
    /\ UNCHANGED <<chanvars, selvars>>

\* holding Channel::mtx, the producer calls selector->notify()
ProducerNotify(p) ==
    /\ At(p, "in_ch")
    /\ Goto(p, "notify", lpc[p].ch)
    /\ UNCHANGED <<selMtx, chMtx, rv>>
    /\ UNCHANGED <<chanvars, selvars>>

\* notify() has taken (and given back) the mutexes it needs and returns;
\* the producer then returns and unlocks Channel::mtx
ProducerReturn(p) ==
    /\ At(p, "notify")
    /\ NotifyAcquires # {} => selMtx = Free
    /\ chMtx' = [chMtx EXCEPT ![lpc[p].ch] = Free]
    /\ Goto(p, "idle", "none")
    /\ UNCHANGED <<selMtx, rv>>
    /\ UNCHANGED <<chanvars, selvars>>

LockNext ==
    \/ OwnerCall
    \/ OwnerAcquireSel
    \/ \E c \in Chans : OwnerCallChannel(c)
    \/ OwnerAcquireChannel
    \/ OwnerReleaseChannel
    \/ OwnerCvWait
    \/ OwnerCvWake
    \/ OwnerReturn
    \/ \E p \in Procs, c \in Chans : ProducerCall(p, c)
    \/ \E p \in Procs : ProducerAcquireChannel(p)
    \/ \E p \in Procs : ProducerNotify(p)
    \/ \E p \in Procs : ProducerReturn(p)

LockSpec == SelInit /\ [][LockNext]_vars

\* thread t is blocked acquiring Selector::mtx
WaitsForSelector(t) ==
    \/ t = Owner /\ At(t, "want_sel")
    \/ t \in Procs /\ At(t, "notify") /\ NotifyAcquires # {}

\* thread t is blocked acquiring the Channel::mtx of channel c
WaitsForChannel(t, c) == At(t, "want_ch") /\ lpc[t].ch = c

\* the multiset of the elements of a sequence
BagOfSeq(q) ==
    [v \in {q[i] : i \in DOMAIN q} |-> Cardinality({i \in DOMAIN q : q[i] = v})]

InSend(p) == pc[p] \in {"send_wait", "send_woken"}
InReceive(p) == pc[p] \in {"recv_wait", "recv_woken"}

\* every thread that is inside a blocking call
Blocked(p) == pc[p] \in {"send_wait", "send_woken", "recv_wait", "recv_woken"}

TypeOK ==
    /\ capacity \in 0..MaxCap
    /\ closed \in BOOLEAN
    /\ waitingReceivers \in 0..(SizeMod - 1)
    /\ nSends \in 0..MaxSends
    /\ \A p \in Procs : pc[p] \in {"idle", "send_wait", "send_woken", "recv_wait", "recv_woken"}

\* ---- C1 -------------------------------------------------------------------
\* C1: on a channel with capacity c > 0 the queue never holds more than c
\* values, i.e. at most c pushes are ahead of the pops, whatever the threads do.
C1_BufferedWithinCapacity ==
    capacity > 0 => /\ Len(queue) <= capacity
                    /\ Len(slog) - Len(rlog) <= capacity

\* a full buffered channel with a sender blocked on it
C1_Witness ==
    /\ capacity > 0
    /\ Len(queue) = capacity
    /\ \E p \in Procs : pc[p] = "send_wait"

\* ---- C2 -------------------------------------------------------------------
\* C2: once the channel is closed no value is appended to the queue any more:
\* every send that returns from then on throws the Closed error and every
\* try_send returns false, both leaving the queue as it was.
C2_NoAppendAfterClose ==
    [][closed =>
          /\ slog' = slog
          /\ Len(queue') <= Len(queue)
          /\ last'.op = "send" => (IsClosedError(last'.res) /\ queue' = queue)
          /\ last'.op = "try_send" => (last'.res = FALSE /\ queue' = queue)]_vars

\* a sender that was blocked when the channel got closed has just failed,
\* with values still queued
C2_Witness ==
    /\ closed
    /\ last.op = "send"
    /\ last.res = ClosedWhileWaiting
    /\ queue # <<>>

\* ---- C3 -------------------------------------------------------------------
\* C3: with one sender and one receiver, for every capacity, the values are
\* pushed in the order of the send calls (1, 2, ...) and the receiver gets
\* them in that order: what it has got so far, followed by what is queued, is
\* what has been sent; once the queue is drained it has got exactly the
\* values v1..vn of the n sends that completed.
C3_SingleSenderFifo ==
    /\ slog = [i \in 1..Len(slog) |-> i]
    /\ rlog \o queue = slog
    /\ queue = <<>> => rlog = [i \in 1..Len(slog) |-> i]

\* the receiver has got all the values of the run, there were at least two
C3_Witness ==
    /\ Len(rlog) = MaxSends
    /\ MaxSends >= 2
    /\ queue = <<>>
    /\ last.p = Receiver
    /\ last.op = "receive"

\* ---- C4 -------------------------------------------------------------------
\* C4: with any number of concurrent senders and receivers no value is lost,
\* duplicated or invented: the values received together with those queued
\* are the values sent, and once no send is pending and the queue is empty,
\* the multiset received is the multiset sent.
C4_Conservation ==
    /\ BagOfSeq(rlog) (+) BagOfSeq(queue) = BagOfSeq(slog)
    /\ \A i \in DOMAIN rlog : rlog[i] \in 1..nSends
    /\ (queue = <<>> /\ \A p \in Procs : ~InSend(p)) => BagOfSeq(rlog) = BagOfSeq(slog)

\* all the values of the run were sent and received, while two receivers
\* are still waiting on the drained channel
C4_Witness ==
    /\ Len(slog) = MaxSends
    /\ Len(rlog) = MaxSends
    /\ queue = <<>>
    /\ \A p \in Procs : ~InSend(p)
    /\ Cardinality({p \in Procs : InReceive(p)}) >= 2

\* ---- C5 -------------------------------------------------------------------
\* C5: from the moment the channel is closed the queue only shrinks, from its
\* head; a receive returns the head of the queue and removes it, and returns
\* nullopt when the queue is empty, which it then stays.
C5_DrainAfterClose ==
    [][closed =>
          /\ closed'
          /\ queue' = queue \/ (queue # <<>> /\ queue' = Tail(queue))
          /\ last'.op = "receive" =>
                IF queue = <<>>
                THEN last'.res = nullopt /\ queue' = <<>>
                ELSE last'.res = Some(Head(queue)) /\ queue' = Tail(queue)]_vars

\* a receive on the closed channel has returned a value and more are queued
C5_Witness ==
    /\ closed
    /\ last.op = "receive"
    /\ last.res # nullopt
    /\ queue # <<>>

\* ---- C6 -------------------------------------------------------------------
\* C6: a blocking receive returns nullopt only when the channel is closed and
\* its queue is empty.
C6_NulloptOnlyClosedEmpty ==
    (last.op = "receive" /\ last.res = nullopt) => (closed /\ queue = <<>>)

\* a receive has returned nullopt after values went through the channel
C6_Witness ==
    /\ last.op = "receive"
    /\ last.res = nullopt
    /\ rlog # <<>>

\* ---- C7 -------------------------------------------------------------------
\* C7: a send that is blocked once the channel is closed eventually returns
\* with the Closed error, a receive that is blocked then eventually returns.
C7_CloseUnblocks ==
    \A p \in Procs :
        /\ (closed /\ InSend(p)) ~>
               (last.p = p /\ last.op = "send" /\ IsClosedError(last.res) /\ pc[p] = "idle")
        /\ (closed /\ InReceive(p)) ~>
               (last.p = p /\ last.op = "receive" /\ pc[p] = "idle")

\* a receiver that was blocked has returned after the close while another
\* one is still to return
C7_Witness ==
    /\ closed
    /\ last.op = "receive"
    /\ last.res = nullopt
    /\ \E q \in Procs : pc[q] = "recv_woken"

\* ---- C8 -------------------------------------------------------------------
\* C8: on a capacity-0 channel a send that has returned successfully has had
\* its value taken out of the queue by exactly one receive.
C8_SendReturnsAfterTake ==
    (capacity = 0 /\ last.op = "send" /\ last.res = "ok") =>
        Cardinality({i \in DOMAIN rlog : rlog[i] = slog[Len(slog)]}) = 1

\* ---- C9 -------------------------------------------------------------------
\* C9: on a capacity-0 channel a blocking send deposits its value only in a
\* state where some receive call is suspended waiting for a value.
C9_DepositOnlyToWaitingReceiver ==
    [][(capacity = 0 /\ last'.op = "send" /\ last'.res = "ok") =>
          \E r \in Procs : InReceive(r)]_vars

\* ---- C10 ------------------------------------------------------------------
\* C10: on a capacity-0 channel waitingReceivers never wraps below zero and,
\* the lock being free, is the number of receive calls suspended in the
\* rendezvous branch.
C10_WaitingReceiversExact ==
    capacity = 0 =>
        /\ waitingReceivers <= NProcs
        /\ waitingReceivers = Cardinality({p \in Procs : InReceive(p)})

\* ---- C11 ------------------------------------------------------------------
\* C11: on a capacity-0 channel used through send, receive and close only,
\* the queue holds at most one value whenever the channel lock is free.
C11_RendezvousAtMostOne ==
    capacity = 0 => Len(queue) <= 1

\* ---- C12 ------------------------------------------------------------------
\* C12: on a capacity-0 channel a try_send made while no receive call is
\* waiting returns false and leaves the queue as it was.
C12_TrySendRendezvousFails ==
    [][(capacity = 0 /\ last'.op = "try_send" /\ ~\E r \in Procs : InReceive(r)) =>
          (last'.res = FALSE /\ queue' = queue)]_vars

\* ---- C13 ------------------------------------------------------------------
\* C13: on a buffered channel try_send appends the value and returns true
\* exactly when the channel is open and holds fewer than capacity values, and
\* otherwise returns false and changes nothing; try_receive removes and
\* returns the head exactly when the queue is not empty, closed or not, and
\* otherwise returns nullopt and changes nothing.
C13_TryOperations ==
    [][capacity > 0 =>
          /\ last'.op = "try_send" =>
                IF ~closed /\ Len(queue) < capacity
                THEN last'.res = TRUE /\ queue' = Append(queue, nSends')
                ELSE last'.res = FALSE /\ queue' = queue
          /\ last'.op = "try_receive" =>
                /\ IF queue # <<>>
                   THEN last'.res = Some(Head(queue)) /\ queue' = Tail(queue)
                   ELSE last'.res = nullopt /\ queue' = queue
                /\ UNCHANGED <<closed, capacity, waitingReceivers>>]_vars

\* a try_send has been refused by a full open channel
C13_Witness ==
    /\ capacity > 0
    /\ ~closed
    /\ last.op = "try_send"
    /\ last.res = FALSE
    /\ Len(queue) = capacity

\* ---- C14 ------------------------------------------------------------------
\* C14: is_closed() returns the closed flag and the flag never goes back to
\* false, so once is_closed() has returned true it returns true ever after.
C14_ClosedMonotonic ==
    [][/\ closed => closed'
       /\ last'.op = "is_closed" => last'.res = closed'
       /\ (last.op = "is_closed" /\ last.res = TRUE /\ last'.op = "is_closed")
              => last'.res = TRUE]_vars

\* is_closed() has returned true on a channel that still holds a value
C14_Witness ==
    /\ last.op = "is_closed"
    /\ last.res = TRUE
    /\ queue # <<>>

\* ---- C15 ------------------------------------------------------------------
\* C15: on a capacity-0 channel a single thread that calls send(v) and then
\* receive(), with no other thread using the channel, completes both calls.
\* Finite form: the lone thread is never parked in send's cv_send.wait with a
\* false predicate while no value has been taken, no receiver has announced
\* itself, the channel is open and every other thread is outside the channel
\* (nobody is left to make the predicate true).
C15_SoloSendThenReceive ==
    ~ /\ capacity = 0
      /\ ~closed
      /\ nSends = 1
      /\ pc[Sender] = "send_wait"
      /\ arg[Sender] = 1
      /\ \A p \in Procs \ {Sender} : pc[p] = "idle"
      /\ ~SendPredUnbuffered
      /\ queue = <<>>
      /\ slog = <<>>
      /\ rlog = <<>>

\* a select() call has just returned
SelectReturned == spc = "idle" /\ sret # "none"

\* ---- C16 ------------------------------------------------------------------
\* C16: if at select() entry some intent can fire (its channel has a queued
\* value), select() returns true after invoking exactly one callback,
\* whatever the state of the other channels.
C16_ReadyIntentFiresOnce ==
    (SelectReturned /\ ready0 # {}) => (sret = "true" /\ ncb = 1 /\ cb # <<>>)

\* ---- C17 ------------------------------------------------------------------
\* C17: if every channel of the selector's intents is closed and empty when
\* select() is entered, select() returns false, having unregistered from the
\* channels and dropped the retired intents; it does not return true.
C17_AllClosedReturnsFalse ==
    (SelectReturned /\ allDone0) =>
        /\ sret = "false"
        /\ channels = <<>>
        /\ \A c \in added : chSelectors[c] = <<>>

\* ---- C18 ------------------------------------------------------------------
\* C18: with the selector as only consumer, every value taken from a channel
\* is passed to that channel's callback, once, and an intent is retired
\* (unregistered from its channel or dropped from the intent list) only when
\* its channel is closed AND empty, so no queued value is left undelivered.
C18_DeliveredBeforeRetire ==
    [][\A c \in Chans :
         /\ chQueue'[c] # chQueue[c] /\ Len(chQueue'[c]) <= Len(chQueue[c]) =>
               /\ chQueue'[c] = Tail(chQueue[c])
               /\ cb' = <<c, Head(chQueue[c])>>
               /\ ncb' = ncb + 1
         /\ \/ c \in Armed /\ c \notin Armed'
            \/ chSelectors[c] # <<>> /\ chSelectors'[c] = <<>>
            => chClosed[c] /\ chQueue[c] = <<>>]_vars

\* ---- C19 ------------------------------------------------------------------
\* C19: a notification is never lost: select() is not blocked on its
\* condition variable while a channel it is registered with, and has an
\* intent for, holds a value or is closed.
C19_NoLostNotification ==
    spc = "waiting" =>
        \A c \in Armed : chSelectors[c] # <<>> => (chQueue[c] = <<>> /\ ~chClosed[c])

\* ---- C20 ------------------------------------------------------------------
\* every channel is open and had a value for its intent at the latest
\* select() entry
AllAvailableAtEntry == ready0 = Chans /\ \A c \in Chans : ~chClosed[c]

\* the latest callback invoked by select() was that of channel c
Fired(c) == cb # <<>> /\ cb[1] = c

\* C20: if select() is called again and again and, from some point on, every
\* channel has a value available at each select() entry, then every intent
\* fires infinitely often.
C20_NoStarvation ==
    ([]<>(spc = "find1") /\ <>[]AllAvailableAtEntry) => \A c \in Chans : []<>Fired(c)

\* ---- C21 ------------------------------------------------------------------
\* C21: an intent stays armed across fires: select() never removes from the
\* intent list an intent whose channel is still open.
C21_IntentStaysArmed ==
    [][\A c \in Chans : (c \in Armed /\ c \notin Armed') => chClosed[c]]_vars

\* ---- C23 ------------------------------------------------------------------
\* C23: no select() call invokes more than one callback, and a call that has
\* invoked a callback (consumed a value) returns true; in particular a call
\* that blocked and was woken by one value returns true with one callback.
C23_OneCallbackThenTrue ==
    SelectReturned => (ncb <= 1 /\ (ncb = 1 => sret = "true"))

\* ---- C26 ------------------------------------------------------------------
\* the position in the intent list of the earliest intent that had a value
\* at select() entry
EarliestReady == CHOOSE i \in DOMAIN channels :
                     /\ channels[i] \in ready0
                     /\ \A j \in DOMAIN channels : channels[j] \in ready0 => i <= j

\* C26: when several intents have a value at select() entry, the intent that
\* fires is the earliest of them in registration order.
C26_RegistrationOrder ==
    (SelectReturned /\ Cardinality(ready0) >= 2 /\ cb # <<>>) =>
        cb[1] = channels[EarliestReady]

\* select() has fired an intent after finding two channels with a value
C26_Witness ==
    /\ SelectReturned
    /\ Cardinality(ready0) >= 2
    /\ cb # <<>>
    /\ sret = "true"

\* ---- C25 ------------------------------------------------------------------
\* C25: a selector is unregistered from its channels when it is torn down:
\* once the selector is destroyed no channel's selector list references it,
\* so no later send, try_send or close notifies a destroyed selector.
C25_UnregisteredOnTeardown ==
    spc \in {"destroyed", "crashed"} => \A c \in Chans : chSelectors[c] = <<>>

\* ---- C27 ------------------------------------------------------------------
\* C27: a blocking send on a fresh capacity-0 channel whose only consumer is
\* a selector completes while the selector keeps calling select(): a selector
\* waiting on the channel counts as a waiting receiver.  Finite form: while
\* the selector is blocked in select() with an intent for an open channel it
\* is registered with, the sender of that channel is not parked in send();
\* in such a state each thread waits for the other and the send never ends.
C27_SelectorCountsAsReceiver ==
    \A c \in Chans :
        (spc = "waiting" /\ c \in Armed /\ chSelectors[c] # <<>> /\ ~chClosed[c])
            => rv[c].pc # "send_wait"

\* ---- C22 ------------------------------------------------------------------
\* C22: there is no lock-order cycle between a channel mutex and the selector
\* mutex: no thread holds a channel's mutex and waits for Selector::mtx while
\* another thread holds Selector::mtx and waits for that channel's mutex.
C22_NoLockOrderCycle ==
    ~\E t \in LockThreads, u \in LockThreads, c \in Chans :
        /\ t # u
        /\ chMtx[c] = t
        /\ WaitsForSelector(t)
        /\ selMtx = u
        /\ WaitsForChannel(u, c)

\* a producer holding a channel's mutex is calling notify() while the owner
\* holds Selector::mtx and waits for that channel's mutex
C22_Witness ==
    \E p \in Procs, c \in Chans :
        /\ chMtx[c] = p
        /\ At(p, "notify")
        /\ selMtx = Owner
        /\ WaitsForChannel(Owner, c)

\* ---- C24 ------------------------------------------------------------------
\* C24: no wake-up is lost inside a channel.  Under fair scheduling a sender
\* blocked in send on a buffered channel that has a free slot eventually
\* returns, unless the queue has become full again (a peer took the slot);
\* a receiver blocked in receive while the queue holds a value eventually
\* returns, unless the queue has become empty again (a peer took the value).
\* Every action is quantified over Procs, so the threads are interchangeable
\* and the property is stated for one thread in each role.
C24_NoLostWakeup ==
    /\ (InSend(Sender) /\ capacity > 0 /\ Len(queue) < capacity)
           ~> (~InSend(Sender) \/ Len(queue) >= capacity)
    /\ (InReceive(Receiver) /\ queue # <<>>)
           ~> (~InReceive(Receiver) \/ queue = <<>>)

\* a try_receive or receive has just freed a slot of an open buffered
\* channel while a sender is blocked in send
C24_Witness ==
    /\ capacity > 0
    /\ ~closed
    /\ Len(queue) < capacity
    /\ last.op \in {"receive", "try_receive"}
    /\ InSend(Sender)
====
